---------------------------- MODULE Spec2Model ----------------------------
(***************************************************************************)
(* The counter engine of crates/typst-library/src/meta/counter.rs:         *)
(* CounterState and its update algebra, the Sequence builder               *)
(* (Counter::sequence_impl), its memoization, and the queries at, final    *)
(* and both over one document snapshot.                                    *)
(***************************************************************************)
EXTENDS Integers, Sequences, FiniteSets

(***************************************************************************)
(* Bounds of the model.                                                    *)
(***************************************************************************)
\* usize::MAX, narrowed so that saturation is within reach of the check.
UsizeMax == 8
\* Length of the CounterStates the update algebra is applied to.
MaxLen == 3
\* Deepest level of a Step.
MaxLevel == 3
\* Number of locatable elements of a document snapshot.
MaxElems == 3

Usize == 0..UsizeMax

(***************************************************************************)
(* CounterKey: the page counter, a selector (the heading counter) and a    *)
(* string key.                                                             *)
(***************************************************************************)
Page == "page"
Selector == "heading"
Str == "mycounter"
CounterKey == {Page, Selector, Str}
\* The counter of a label, CounterKey::Selector(Selector::Label(<x>)), and
\* the string key of another named counter.
LabelKey == "<x>"
Foreign == "othercounter"

(***************************************************************************)
(* CounterUpdate: Set(CounterState) | Step(NonZeroUsize) | Func(Func).     *)
(* One record shape for the three variants; the unused fields are blank.   *)
(***************************************************************************)
Set(s) == [type |-> "Set", state |-> s, level |-> 0, func |-> ""]
Step(l) == [type |-> "Step", state |-> <<>>, level |-> l, func |-> ""]
Func(f) == [type |-> "Func", state |-> <<>>, level |-> 0, func |-> f]
\* Option<CounterUpdate>::None
NoUpdate == [type |-> "None", state |-> <<>>, level |-> 0, func |-> ""]

\* SourceResult<CounterState>
Ok(s) == [ok |-> TRUE, state |-> s]
Err == [ok |-> FALSE, state |-> <<>>]

\* usize::wrapping_add in the place of saturating_add.
wrapping_add(a, b) == (a + b) % (UsizeMax + 1)

\* usize::saturating_add
saturating_add(a, b) == IF a + b > UsizeMax THEN UsizeMax ELSE a + b

\* usize::saturating_sub
saturating_sub(a, b) == IF a < b THEN 0 ELSE a - b

\* SmallVec::truncate
truncate(s, n) == IF Len(s) > n THEN SubSeq(s, 1, n) ELSE s

\* step without the truncate of line 584: the deeper levels survive.
step_no_truncate(s, level, by) ==
    LET t == IF Len(s) >= level
             THEN [s EXCEPT ![level] = saturating_add(s[level], by)]
             ELSE s
    IN  t \o [i \in 1..(level - Len(t)) |-> 1]

\* step that resets the levels below the stepped one to 1.
step_reset_below(s, level, by) ==
    LET t == IF Len(s) >= level
             THEN truncate([s EXCEPT ![level] = saturating_add(s[level], by)], level)
             ELSE s
        u == t \o [i \in 1..(level - Len(t)) |-> 1]
    IN  [i \in 1..Len(u) |-> IF i < level THEN 1 ELSE u[i]]

\* step with a wrapping addition in the place of the saturating one.
step_wrapping(s, level, by) ==
    LET t == IF Len(s) >= level
             THEN truncate([s EXCEPT ![level] = wrapping_add(s[level], by)], level)
             ELSE s
    IN  t \o [i \in 1..(level - Len(t)) |-> 1]

\* CounterState::step(level, by)
step(s, level, by) ==
    LET t == IF Len(s) >= level
             THEN truncate([s EXCEPT ![level] = saturating_add(s[level], by)], level)
             ELSE s
    IN  t \o [i \in 1..(level - Len(t)) |-> 1]

\* first with 0 as the default of an empty state.
first_or_zero(s) == IF Len(s) = 0 THEN 0 ELSE s[1]

\* CounterState::first
first(s) == IF Len(s) = 0 THEN 1 ELSE s[1]

(***************************************************************************)
(* The closures handed to update(): what each returns for the positional   *)
(* arguments it is called with, as a typst value (an integer, or a string  *)
(* for the closure that returns no number), or a failed call.              *)
(***************************************************************************)
Funcs == {"double", "add3", "text"}

\* Func::call_vt(vt, self.0.iter().copied()): one-parameter closures
call_vt(f, args) ==
    IF Len(args) # 1 THEN [ok |-> FALSE, int |-> 0, isInt |-> FALSE]
    ELSE IF f = "double" THEN [ok |-> TRUE, int |-> args[1] * 2, isInt |-> TRUE]
    ELSE IF f = "add3" THEN [ok |-> TRUE, int |-> args[1] + 3, isInt |-> TRUE]
    ELSE [ok |-> TRUE, int |-> 0, isInt |-> FALSE]

\* cast! CounterState: num: usize => Self(smallvec![num])
cast(v) ==
    IF v.ok /\ v.isInt /\ v.int \in Usize THEN Ok(<<v.int>>) ELSE Err

\* update whose Set keeps a deeper state's tail: it overwrites the levels
\* given and leaves the others.
update_set_merges(s, u) ==
    IF u.type = "Set"
    THEN Ok(u.state \o (IF Len(s) > Len(u.state)
                        THEN SubSeq(s, Len(u.state) + 1, Len(s)) ELSE <<>>))
    ELSE IF u.type = "Step" THEN Ok(step(s, u.level, 1))
    ELSE cast(call_vt(u.func, s))

\* CounterState::update
update(s, u) ==
    IF u.type = "Set" THEN Ok(u.state)
    ELSE IF u.type = "Step" THEN Ok(step(s, u.level, 1))
    ELSE cast(call_vt(u.func, s))


(***************************************************************************)
(* The document snapshot the introspector serves: the locatable elements   *)
(* in document order, each with the page it was laid out on.  A Location   *)
(* is the index of an element.                                             *)
(***************************************************************************)
\* UpdateElem::new(key, update)
UpdateElem(k, u) ==
    [kind |-> "update", key |-> k, update |-> u, count |-> FALSE, label |-> ""]
\* An element the Selector key matches and that implements Count: a heading,
\* whose Count::update is Some(Step(level)), or None when it is unnumbered.
Countable(u) ==
    [kind |-> "elem", key |-> "", update |-> u, count |-> TRUE, label |-> ""]
\* An element the Selector key matches and that does not implement Count.
Plain ==
    [kind |-> "elem", key |-> "", update |-> NoUpdate, count |-> FALSE, label |-> ""]
\* Any other locatable element (a DisplayElem, the anchor of a locate call).
Other ==
    [kind |-> "other", key |-> "", update |-> NoUpdate, count |-> FALSE, label |-> ""]
\* An element with the label <x> attached.
Labelled(e) == [e EXCEPT !.label = "x"]

\* The payloads of the update events: update(()), update(1), update(3),
\* step(), step(level: 2), update(n => n * 2), update(n => n + 3) and an
\* update with a closure that returns no number.
Updates ==
    {Set(<<>>), Set(<<1>>), Set(<<3>>), Step(1), Step(2)}
        \cup {Func(f) : f \in Funcs}

\* The payloads the update events addressed to key k carry in the documents
\* studied: for the page counter update(1), step() and update(n => n + 3);
\* for the heading counter, which its headings already step at every
\* level, update(3) and update(n => n * 2); for a named counter all but
\* update(1) and update(n => n + 3).
UpdatesOf(k) ==
    IF k = Page THEN {Set(<<1>>), Step(1), Func("add3")}
    ELSE IF k = Selector THEN {Set(<<3>>), Func("double")}
    ELSE Updates \ {Set(<<1>>), Func("add3")}

\* The levels of the headings in the documents studied.
HeadingLevels == {1, 2, 3}

\* The element kinds a document studied for the counter with key k is made of.
Elements(k) ==
    {Other}
        \cup {UpdateElem(k, u) : u \in UpdatesOf(k)}
        \cup (IF k = Selector
              THEN {Countable(Step(l)) : l \in HeadingLevels}
                       \cup {Countable(NoUpdate), Plain}
              ELSE {})

\* An element as the introspector holds it: with its page.
At_(e, p) == [elem |-> e, page |-> p]

VARIABLES
    counter,    \* the Counter: its CounterKey (self.0)
    doc,        \* the snapshot: the located elements in document order
    pages,      \* the snapshot: the number of pages (introspector.pages())
    memo,       \* comemo's cached output of sequence_impl for this snapshot
    res,        \* the last query and what it returned
    cs,         \* a CounterState the update algebra is applied to
    pre,        \* that CounterState before the last update or step
    upd,        \* the last update applied to it
    by,         \* the amount of the last step
    constraint, \* what the cached build read from the tracked introspector
    builds,     \* executions of sequence_impl over the current snapshot
    made,       \* the update events constructed, and where each was placed
    call        \* the last call of a method of the counter

vars ==
    <<counter, doc, pages, memo, res, cs, pre, upd, by, constraint, builds, made,
      call>>

\* Counter::is_page
is_page(k) == k = Page

\* selector without the key filter on the UpdateElems.
selector_any_update(k, e) ==
    \/ e.kind = "update"
    \/ k = Selector /\ e.kind = "elem"
    \/ k = LabelKey /\ e.label = "x"

\* Counter::selector: the UpdateElems with this key, or'ed with the key's own
\* selector when the key is a Selector: the elements of the counted kind,
\* or those that carry the label.
selector(k, e) ==
    \/ e.kind = "update" /\ e.key = k
    \/ k = Selector /\ e.kind = "elem"
    \/ k = LabelKey /\ e.label = "x"

\* Introspector::query(selector): the matching elements in document order
\* (as locations).
RECURSIVE query_from(_, _, _)
query_from(k, d, i) ==
    IF i > Len(d) THEN <<>>
    ELSE (IF selector(k, d[i].elem) THEN <<i>> ELSE <<>>) \o query_from(k, d, i + 1)

query(k, d) == query_from(k, d, 1)

\* Introspector::query(selector.before(location, inclusive)).len(): the
\* matching elements before the location, the one at the location included
\* when inclusive.
query_before(k, d, location, inclusive) ==
    Cardinality({i \in 1..Len(d) :
        /\ selector(k, d[i].elem)
        /\ (i < location \/ (inclusive /\ i = location))})

\* Introspector::page(location)
page_of(d, location) == d[location].page

(***************************************************************************)
(* Counter::sequence_impl.  A stop is <<state, page>>.  The page delta of  *)
(* line 439 is a plain usize subtraction: when the page is lower than the  *)
(* previous one it panics (overflow checks on) or wraps (off); ovf is the  *)
(* build's choice.                                                         *)
(***************************************************************************)
SeqOk(stops) == [kind |-> "ok", stops |-> stops]
SeqErr == [kind |-> "err", stops |-> <<>>]
SeqPanic == [kind |-> "panic", stops |-> <<>>]
NoMemo == [kind |-> "none", stops |-> <<>>]

\* page.get() - prev.get(); -1 stands for the panic
page_delta(page, prev, ovf) ==
    IF page >= prev THEN page - prev
    ELSE IF ovf = "wrap" THEN page - prev + UsizeMax + 1
    ELSE -1

\* event_update that never asks the element's Count implementation.
event_update_no_count(e) ==
    IF e.kind = "update" THEN e.update ELSE Step(1)

\* The update an event carries: the UpdateElem's, else the Count
\* implementation's, else Step(1).
event_update(e) ==
    IF e.kind = "update" THEN e.update
    ELSE IF e.count THEN e.update
    ELSE Step(1)

\* The loop with the page step applied after the event's own update.
RECURSIVE sequence_loop_step_last(_, _, _, _, _, _, _, _)
sequence_loop_step_last(k, d, sel, i, state, page, stops, ovf) ==
    IF i > Len(sel) THEN SeqOk(stops)
    ELSE
        LET e == d[sel[i]]
            newpage == IF is_page(k) THEN e.page ELSE page
            delta == IF is_page(k) THEN page_delta(e.page, page, ovf) ELSE 0
            u == event_update(e.elem)
            r == IF u = NoUpdate THEN Ok(state) ELSE update(state, u)
            stepped == IF delta > 0 THEN step(r.state, 1, delta) ELSE r.state
        IN  IF delta < 0 THEN SeqPanic
            ELSE IF ~r.ok THEN SeqErr
            ELSE sequence_loop_step_last(k, d, sel, i + 1, stepped, newpage,
                                         Append(stops, <<stepped, newpage>>), ovf)

\* The loop with the stop recorded before the event's update is applied.
RECURSIVE sequence_loop_push_first(_, _, _, _, _, _, _, _)
sequence_loop_push_first(k, d, sel, i, state, page, stops, ovf) ==
    IF i > Len(sel) THEN SeqOk(stops)
    ELSE
        LET e == d[sel[i]]
            newpage == IF is_page(k) THEN e.page ELSE page
            delta == IF is_page(k) THEN page_delta(e.page, page, ovf) ELSE 0
            stepped == IF delta > 0 THEN step(state, 1, delta) ELSE state
            u == event_update(e.elem)
            r == IF u = NoUpdate THEN Ok(stepped) ELSE update(stepped, u)
        IN  IF delta < 0 THEN SeqPanic
            ELSE IF ~r.ok THEN SeqErr
            ELSE sequence_loop_push_first(k, d, sel, i + 1, r.state, newpage,
                                          Append(stops, <<stepped, newpage>>), ovf)

\* The loop that skips an update that fails and goes on with the state as
\* it was.
RECURSIVE sequence_loop_skipping(_, _, _, _, _, _, _, _)
sequence_loop_skipping(k, d, sel, i, state, page, stops, ovf) ==
    IF i > Len(sel) THEN SeqOk(stops)
    ELSE
        LET e == d[sel[i]]
            newpage == IF is_page(k) THEN e.page ELSE page
            delta == IF is_page(k) THEN page_delta(e.page, page, ovf) ELSE 0
            stepped == IF delta > 0 THEN step(state, 1, delta) ELSE state
            u == event_update(e.elem)
            r == IF u = NoUpdate THEN Ok(stepped) ELSE update(stepped, u)
            next == IF r.ok THEN r.state ELSE stepped
        IN  IF delta < 0 THEN SeqPanic
            ELSE sequence_loop_skipping(k, d, sel, i + 1, next, newpage,
                                        Append(stops, <<next, newpage>>), ovf)

\* The loop with a stop of its own for the page step, before the event's stop.
RECURSIVE sequence_loop_stop_per_step(_, _, _, _, _, _, _, _)
sequence_loop_stop_per_step(k, d, sel, i, state, page, stops, ovf) ==
    IF i > Len(sel) THEN SeqOk(stops)
    ELSE
        LET e == d[sel[i]]
            newpage == IF is_page(k) THEN e.page ELSE page
            delta == IF is_page(k) THEN page_delta(e.page, page, ovf) ELSE 0
            stepped == IF delta > 0 THEN step(state, 1, delta) ELSE state
            turned == IF delta > 0 THEN Append(stops, <<stepped, newpage>>) ELSE stops
            u == event_update(e.elem)
            r == IF u = NoUpdate THEN Ok(stepped) ELSE update(stepped, u)
        IN  IF delta < 0 THEN SeqPanic
            ELSE IF ~r.ok THEN SeqErr
            ELSE sequence_loop_stop_per_step(k, d, sel, i + 1, r.state, newpage,
                                             Append(turned, <<r.state, newpage>>), ovf)

\* The loop of sequence_impl over the events from the i-th selected one.
RECURSIVE sequence_loop(_, _, _, _, _, _, _, _)
sequence_loop(k, d, sel, i, state, page, stops, ovf) ==
    IF i > Len(sel) THEN SeqOk(stops)
    ELSE
        LET e == d[sel[i]]
            newpage == IF is_page(k) THEN e.page ELSE page
            delta == IF is_page(k) THEN page_delta(e.page, page, ovf) ELSE 0
            stepped == IF delta > 0 THEN step(state, 1, delta) ELSE state
            u == event_update(e.elem)
            r == IF u = NoUpdate THEN Ok(stepped) ELSE update(stepped, u)
        IN  IF delta < 0 THEN SeqPanic
            ELSE IF ~r.ok THEN SeqErr
            ELSE sequence_loop(k, d, sel, i + 1, r.state, newpage,
                               Append(stops, <<r.state, newpage>>), ovf)

\* initial_state with 1 for every key.
initial_state_one(k) == <<1>>

\* initial_state without the special case of the page counter.
initial_state_zero(k) == <<0>>

\* The state the Sequence starts from.
initial_state(k) == IF k = Page THEN <<1>> ELSE <<0>>

sequence_impl(k, d, ovf) ==
    sequence_loop(k, d, query(k, d), 1, initial_state(k), 1,
                  <<<<initial_state(k), 1>>>>, ovf)

(***************************************************************************)
(* The queries, over the output sq of Counter::sequence.  Each returns the *)
(* SourceResult it hands back: a state, the build's error, or the panic.   *)
(***************************************************************************)
QOk(s) == [kind |-> "ok", state |-> s]
QFail(sq) == [kind |-> sq.kind, state |-> <<>>]

\* at with the event at the location left out of the offset
\* (before(location, false)).
at_exclusive(k, d, sq, location) ==
    IF sq.kind # "ok" THEN QFail(sq)
    ELSE
        LET offset == query_before(k, d, location, FALSE)
            stop == sq.stops[offset + 1]
            delta == saturating_sub(page_of(d, location), stop[2])
        IN  QOk(IF is_page(k) THEN step(stop[1], 1, delta) ELSE stop[1])

\* at with the step guarded as the builder guards it: no step for a delta
\* of 0.
at_guarded(k, d, sq, location) ==
    IF sq.kind # "ok" THEN QFail(sq)
    ELSE
        LET offset == query_before(k, d, location, TRUE)
            stop == sq.stops[offset + 1]
            delta == saturating_sub(page_of(d, location), stop[2])
        IN  QOk(IF is_page(k) /\ delta > 0 THEN step(stop[1], 1, delta) ELSE stop[1])

\* Counter::at
at(k, d, sq, location) ==
    IF sq.kind # "ok" THEN QFail(sq)
    ELSE
        LET offset == query_before(k, d, location, TRUE)
            stop == sq.stops[offset + 1]
            delta == saturating_sub(page_of(d, location), stop[2])
        IN  QOk(IF is_page(k) THEN step(stop[1], 1, delta) ELSE stop[1])

\* final_ without the drift correction: the last stop's state as stored.
final_no_drift(k, np, sq) ==
    IF sq.kind # "ok" THEN QFail(sq)
    ELSE QOk(sq.stops[Len(sq.stops)][1])

\* Counter::final_
final_(k, np, sq) ==
    IF sq.kind # "ok" THEN QFail(sq)
    ELSE
        LET stop == sq.stops[Len(sq.stops)]
            delta == saturating_sub(np, stop[2])
        IN  QOk(IF is_page(k) THEN step(stop[1], 1, delta) ELSE stop[1])

\* Counter::both
both(k, d, np, sq, location) ==
    IF sq.kind # "ok" THEN QFail(sq)
    ELSE
        LET offset == query_before(k, d, location, TRUE)
            at_stop == sq.stops[offset + 1]
            final_stop == sq.stops[Len(sq.stops)]
            at_delta == saturating_sub(page_of(d, location), at_stop[2])
            final_delta == saturating_sub(np, final_stop[2])
            at_state == IF is_page(k) THEN step(at_stop[1], 1, at_delta)
                        ELSE at_stop[1]
            final_state == IF is_page(k) THEN step(final_stop[1], 1, final_delta)
                           ELSE final_stop[1]
        IN  QOk(<<first(at_state), first(final_state)>>)

NoRes == [op |-> "none", location |-> 0, out |-> QOk(<<>>)]
NoCall == [method |-> "", args |-> <<>>, deferred |-> FALSE, out |-> QOk(<<>>)]
Overflow == {"panic", "wrap"}

\* What a build reads through the tracked introspector, and comemo records
\* as the constraint of its output: the elements query(selector) returns,
\* and for the page counter the page of each.
tracked(k, d) ==
    LET read(i) == <<i, d[i].elem, IF is_page(k) THEN d[i].page ELSE 0>>
        selected(r) == selector(k, r[2])
    IN  SelectSeq([i \in 1..Len(d) |-> read(i)], selected)

\* A cache hit whatever the introspector now answers.
hit_unvalidated == memo # NoMemo

\* comemo's lookup: there is a cached output and the introspector still
\* answers the calls of its build as it did then.
hit == memo # NoMemo /\ constraint = tracked(counter, doc)

\* Counter::sequence: the memoized sequence_impl.  A cached output is
\* returned as it is; otherwise the Sequence is built, with one of the
\* outcomes the build's overflow checks allow: they differ only where a
\* subtraction has overflowed, which is where the checked build panics.
sequence ==
    IF hit THEN {memo}
    ELSE LET checked == sequence_impl(counter, doc, "panic")
         IN  IF checked.kind = "panic"
             THEN {sequence_impl(counter, doc, ovf) : ovf \in Overflow}
             ELSE {checked}

\* A cache that stores nothing.
memoize_nothing(sq) == memo

\* A cache into which the query writes the drift correction of the last
\* stop: the step applied to the cached state and not to a copy of it.
memoize_in_place(sq) ==
    IF sq.kind = "panic" THEN memo
    ELSE IF sq.kind = "ok" /\ is_page(counter)
    THEN [sq EXCEPT !.stops[Len(sq.stops)] =
             <<step(@[1], 1, saturating_sub(pages, @[2])), @[2]>>]
    ELSE sq

\* What comemo holds after the call returned sq: a panic stores nothing.
memoize(sq) == IF sq.kind = "panic" THEN memo ELSE sq

\* The constraint comemo holds after the call returned sq.
constrain(sq) ==
    IF hit \/ sq.kind = "panic" THEN constraint ELSE tracked(counter, doc)

\* The compilation has not been ended by a panic.
Alive == res.out.kind # "panic"

\* The snapshot has not been queried yet.
Fresh == res = NoRes

Locations == 1..Len(doc)

(***************************************************************************)
(* The state machine: one Counter over the snapshots of a document that    *)
(* layout grows element by element and page by page, and the queries       *)
(* issued against the current snapshot.                                    *)
(***************************************************************************)
InitFor(keys) ==
    /\ counter \in keys
    /\ doc = <<>>
    /\ pages = 1
    /\ memo = NoMemo
    /\ res = NoRes
    /\ cs = <<>>
    /\ pre = <<>>
    /\ upd = NoUpdate
    /\ by = 0
    /\ constraint = <<>>
    /\ builds = 0
    /\ made = <<>>
    /\ call = NoCall

Init == InitFor(CounterKey)

\* The last page of the snapshot holds an element, or is the first page of a
\* document still empty.
LastPageUsed ==
    IF doc = <<>> THEN pages = 1 ELSE doc[Len(doc)].page = pages

\* A new snapshot with one more element.  In the documents studied for the
\* page counter it is laid out on the last page; in those studied for
\* another counter, which reads no page, on a page of its own.
Layout(e) ==
    LET p == IF is_page(counter) \/ doc = <<>> THEN pages ELSE pages + 1
    IN  /\ Len(doc) < MaxElems
        /\ doc' = Append(doc, At_(e, p))
        /\ pages' = p
        /\ memo' = NoMemo
        /\ constraint' = <<>>
        /\ builds' = 0
        /\ res' = NoRes
        /\ UNCHANGED <<counter, cs, pre, upd, by, made, call>>

\* A new snapshot with one more page, in the documents studied for the page
\* counter: no two successive pages are without an element.
PageBreak ==
    /\ is_page(counter)
    /\ LastPageUsed
    /\ pages' = pages + 1
    /\ memo' = NoMemo
    /\ constraint' = <<>>
    /\ builds' = 0
    /\ res' = NoRes
    /\ UNCHANGED <<counter, doc, cs, pre, upd, by, made, call>>

At(location) ==
    \E sq \in sequence :
            /\ Alive
            /\ memo' = memoize(sq)
            /\ constraint' = constrain(sq)
            /\ builds' = IF hit THEN builds ELSE builds + 1
            /\ res' = [op |-> "at", location |-> location,
                       out |-> at(counter, doc, sq, location)]
            /\ UNCHANGED <<counter, doc, pages, cs, pre, upd, by, made, call>>

Final(location) ==
    \E sq \in sequence :
            /\ Alive
            /\ memo' = memoize(sq)
            /\ constraint' = constrain(sq)
            /\ builds' = IF hit THEN builds ELSE builds + 1
            /\ res' = [op |-> "final", location |-> location,
                       out |-> final_(counter, pages, sq)]
            /\ UNCHANGED <<counter, doc, pages, cs, pre, upd, by, made, call>>

Both(location) ==
    \E sq \in sequence :
            /\ Alive
            /\ memo' = memoize(sq)
            /\ constraint' = constrain(sq)
            /\ builds' = IF hit THEN builds ELSE builds + 1
            /\ res' = [op |-> "both", location |-> location,
                       out |-> both(counter, doc, pages, sq, location)]
            /\ UNCHANGED <<counter, doc, pages, cs, pre, upd, by, made, call>>

\* Each snapshot is queried once: a second query of a snapshot returns what it
\* would have returned as the first, and is studied with the cache.
Next ==
    \/ \E e \in Elements(counter) : Layout(e)
    \/ PageBreak
    \/ \E location \in Locations : Fresh /\ At(location)
    \/ \E location \in Locations : Fresh /\ Final(location)
    \/ \E location \in Locations : Fresh /\ Both(location)

Spec == Init /\ [][Next]_vars

\* The same machine for the page counter alone.
InitPage == InitFor({Page})
SpecPage == InitPage /\ [][Next]_vars

\* A counter that is not the page counter never reads a page number
\* (is_page guards every use), so its documents are laid out without
\* explicit page breaks.
NextFlow ==
    \/ \E e \in Elements(counter) : Layout(e)
    \/ \E location \in Locations : At(location)
    \/ \E location \in Locations : Final(location)
    \/ \E location \in Locations : Both(location)

\* The same machine for a selector counter alone.
InitSelector == InitFor({Selector})
SpecSelector == InitSelector /\ [][NextFlow]_vars

\* The same machine for a named counter alone.
InitStr == InitFor({Str})
SpecStr == InitStr /\ [][NextFlow]_vars

(***************************************************************************)
(* The documents of the "Time travel" example of the documentation: a      *)
(* named counter, its update(n => n + 3) and step() events, and the other  *)
(* locatable elements (the locate call, the heading) between them.         *)
(***************************************************************************)
\* Number of locatable elements of such a document.
TravelElems == 5

TravelElements ==
    {Other, UpdateElem(Str, Func("add3")), UpdateElem(Str, Step(1))}

\* A new snapshot with one more element of the example.
LayoutExample(e) ==
    /\ Len(doc) < TravelElems
    /\ doc' = Append(doc, At_(e, 1))
    /\ pages' = 1
    /\ memo' = NoMemo
    /\ constraint' = <<>>
    /\ builds' = 0
    /\ res' = NoRes
    /\ UNCHANGED <<counter, cs, pre, upd, by, made, call>>

NextTravel ==
    \/ \E e \in TravelElements : LayoutExample(e)
    \/ \E location \in Locations : At(location)
    \/ \E location \in Locations : Final(location)
    \/ \E location \in Locations : Both(location)

SpecTravel == InitStr /\ [][NextTravel]_vars

(***************************************************************************)
(* Update events as content: Counter::update constructs one, and layout    *)
(* may place it in the document, later and in any order, or never.         *)
(***************************************************************************)
\* Number of update events constructed.
MaxMade == 3

FrameKeys == {Page, Selector, Str, LabelKey}

\* The payloads of the update events constructed: update(3) and step() for
\* the counter, update(3) for the other counter.
FrameUpdates(k) == IF k = Foreign THEN {Set(<<3>>)} ELSE {Set(<<3>>), Step(1)}

\* The elements laid out besides the update events: a heading for the
\* heading counter, an element labelled <x> for the counter of the label.
FrameElements(k) ==
    IF k = Selector THEN {Countable(Step(1))}
    ELSE IF k = LabelKey THEN {Labelled(Plain)}
    ELSE {}

InitFrame == InitFor(FrameKeys)

\* Counter::update: the content of an update event, not yet in any document.
UpdateCall(k, u) ==
    /\ Len(made) < MaxMade
    /\ made' = Append(made, [elem |-> UpdateElem(k, u), at |-> 0])
    /\ UNCHANGED <<counter, doc, pages, memo, res, cs, pre, upd, by,
                   constraint, builds, call>>

\* A new snapshot with a constructed update event placed at its end, an
\* event of the other counter with or without the label <x> attached.
Place(i, labelled) ==
    LET p == IF is_page(counter) \/ doc = <<>> THEN pages ELSE pages + 1
        e == IF labelled THEN Labelled(made[i].elem) ELSE made[i].elem
    IN  /\ Len(doc) < MaxElems
        /\ made[i].at = 0
        /\ labelled => made[i].elem.key = Foreign
        /\ doc' = Append(doc, At_(e, p))
        /\ made' = [made EXCEPT ![i].at = Len(doc) + 1]
        /\ pages' = p
        /\ memo' = NoMemo
        /\ constraint' = <<>>
        /\ builds' = 0
        /\ res' = NoRes
        /\ UNCHANGED <<counter, cs, pre, upd, by, call>>

NextFrame ==
    \/ \E k \in {counter, Foreign} : \E u \in FrameUpdates(k) : UpdateCall(k, u)
    \/ \E i \in 1..Len(made), labelled \in BOOLEAN : Place(i, labelled)
    \/ \E e \in FrameElements(counter) : Layout(e)
    \/ \E location \in Locations \cap {1} : Final(location)

SpecFrame == InitFrame /\ [][NextFrame]_vars

(***************************************************************************)
(* Successive passes over a growing document with comemo's cache kept from *)
(* one pass to the next: a cached Sequence is returned again as long as    *)
(* its constraint holds of the new snapshot.                               *)
(***************************************************************************)
CacheKeys == {Page, Str}

CacheElements(k) == {Other, UpdateElem(k, Step(1)), UpdateElem(k, Set(<<3>>))}

InitCache == InitFor(CacheKeys)

\* The next pass: a new snapshot with one more element, the cache kept.
Relayout(e) ==
    LET p == IF is_page(counter) \/ doc = <<>> THEN pages ELSE pages + 1
    IN  /\ Len(doc) < MaxElems
        /\ doc' = Append(doc, At_(e, p))
        /\ pages' = p
        /\ builds' = 0
        /\ res' = NoRes
        /\ UNCHANGED <<counter, memo, constraint, cs, pre, upd, by, made, call>>

\* The next pass: a new snapshot with one more page, the cache kept.
TurnPage ==
    /\ is_page(counter)
    /\ LastPageUsed
    /\ pages' = pages + 1
    /\ builds' = 0
    /\ res' = NoRes
    /\ UNCHANGED <<counter, doc, memo, constraint, cs, pre, upd, by, made, call>>

NextCache ==
    \/ \E e \in CacheElements(counter) : Relayout(e)
    \/ TurnPage
    \/ \E location \in Locations : At(location)
    \/ \E location \in Locations : Final(location)
    \/ \E location \in Locations : Both(location)

SpecCache == InitCache /\ [][NextCache]_vars

(***************************************************************************)
(* Counter::call_method: the methods at and final as a script calls them,  *)
(* with the arguments it passes.  A Location is a value that only code run *)
(* in a deferred context (the callback of locate) is handed.               *)
(***************************************************************************)
Loc(l) == [type |-> "location", loc |-> l]
NotLoc == [type |-> "int", loc |-> 0]

Methods == {"at", "final", "both"}

\* The argument lists of the calls studied: none, a value that is no
\* location, the location of the last element, and one argument too many.
Args ==
    {<<>>, <<NotLoc>>}
        \cup {<<Loc(l)>> : l \in Locations \cap {Len(doc)}}
        \cup {<<Loc(l), NotLoc>> : l \in Locations \cap {Len(doc)}}

MethodErr == [kind |-> "err", state |-> <<>>]

\* call_method with the first location of the document taken when none is
\* passed.
call_method_default_location(k, d, np, sq, method, args) ==
    LET location == IF args # <<>> /\ args[1].type = "location"
                    THEN args[1].loc ELSE 1
        value == IF method = "at" THEN at(k, d, sq, location)
                 ELSE final_(k, np, sq)
    IN  IF method \notin {"at", "final"} \/ d = <<>>
        THEN [ran |-> FALSE, out |-> MethodErr]
        ELSE [ran |-> TRUE,
              out |-> IF value.kind = "ok" /\ Len(args) > 1 THEN MethodErr
                      ELSE value]

\* Counter::call_method for at and final (and a method the counter has
\* not): args.expect("location")?, the query, args.finish()?.
call_method(k, d, np, sq, method, args) ==
    IF method \notin {"at", "final"}
    THEN [ran |-> FALSE, out |-> MethodErr]
    ELSE IF args = <<>> \/ args[1].type # "location"
    THEN [ran |-> FALSE, out |-> MethodErr]
    ELSE LET value == IF method = "at" THEN at(k, d, sq, args[1].loc)
                      ELSE final_(k, np, sq)
         IN  [ran |-> TRUE,
              out |-> IF value.kind = "ok" /\ Len(args) > 1 THEN MethodErr
                      ELSE value]

\* A script calls the method with the arguments, in a deferred context or
\* outside of one, where it holds no Location.
CallMethod(method, args, deferred) ==
    /\ Alive
    /\ deferred \/ \A i \in 1..Len(args) : args[i].type # "location"
    /\ \E sq \in sequence :
           LET r == call_method(counter, doc, pages, sq, method, args)
           IN  /\ call' = [method |-> method, args |-> args,
                           deferred |-> deferred, out |-> r.out]
               /\ memo' = IF r.ran THEN memoize(sq) ELSE memo
               /\ constraint' = IF r.ran THEN constrain(sq) ELSE constraint
               /\ builds' = IF r.ran /\ ~hit THEN builds + 1 ELSE builds
    /\ UNCHANGED <<counter, doc, pages, res, cs, pre, upd, by, made>>

NextMethod ==
    \/ \E e \in CacheElements(counter) : Layout(e)
    \/ \E method \in Methods, args \in Args, deferred \in BOOLEAN :
           CallMethod(method, args, deferred)

\* The calls on a named counter.
SpecMethod == InitStr /\ [][NextMethod]_vars

(***************************************************************************)
(* Two callers over one snapshot: the show rule of a display, which asks   *)
(* at, and a script that calls the methods at and final with the location  *)
(* of the last element.                                                    *)
(***************************************************************************)
\* The next pass: a new snapshot with one more element, the cache kept and
\* the callers' results of the pass before forgotten.
Recompile(e) ==
    /\ Len(doc) < MaxElems
    /\ doc' = Append(doc, At_(e, 1))
    /\ pages' = 1
    /\ builds' = 0
    /\ res' = NoRes
    /\ call' = NoCall
    /\ UNCHANGED <<counter, memo, constraint, cs, pre, upd, by, made>>

NextShared ==
    \/ \E e \in CacheElements(counter) : Recompile(e)
    \/ \E location \in Locations : At(location)
    \/ \E method \in {"at", "final"}, location \in Locations \cap {Len(doc)} :
           CallMethod(method, <<Loc(location)>>, TRUE)

SpecShared == InitCache /\ [][NextShared]_vars

(***************************************************************************)
(* The page counter over documents whose elements need not lie on          *)
(* non-decreasing pages in document order (floating content): an element   *)
(* may be laid out on any page up to the one after the last.               *)
(***************************************************************************)
Float(e, p) ==
    /\ Len(doc) < MaxElems
    /\ doc' = Append(doc, At_(e, p))
    /\ pages' = IF p > pages THEN p ELSE pages
    /\ memo' = NoMemo
    /\ constraint' = <<>>
    /\ builds' = 0
    /\ res' = NoRes
    /\ UNCHANGED <<counter, cs, pre, upd, by, made, call>>

\* The elements laid out: update(3) and step(level: 2) of the page counter,
\* and an element that is no event of it.
FloatElements ==
    {Other, UpdateElem(Page, Set(<<3>>)), UpdateElem(Page, Step(2))}

NextFloat ==
    \/ \E e \in FloatElements, p \in 1..(pages + 1) : Float(e, p)
    \/ \E location \in Locations : Fresh /\ At(location)
    \/ \E location \in Locations : Fresh /\ Final(location)
    \/ \E location \in Locations : Fresh /\ Both(location)

SpecFloat == InitPage /\ [][NextFloat]_vars

(***************************************************************************)
(* The update algebra on its own: a CounterState drawn from the bounded    *)
(* states, and CounterState::update and CounterState::step applied to it.  *)
(***************************************************************************)
RECURSIVE CounterStates(_)
CounterStates(n) ==
    IF n = 0 THEN {<<>>}
    ELSE LET shorter == CounterStates(n - 1)
         IN  shorter \cup {Append(s, x) : s \in {t \in shorter : Len(t) = n - 1},
                                          x \in Usize}

InitState ==
    /\ cs \in CounterStates(MaxLen)
    /\ pre = cs
    /\ upd = NoUpdate
    /\ by = 0
    /\ constraint = <<>>
    /\ builds = 0
    /\ made = <<>>
    /\ call = NoCall
    /\ counter = Str
    /\ doc = <<>>
    /\ pages = 1
    /\ memo = NoMemo
    /\ res = NoRes

\* state.update(vt, update)?: a failed update leaves the state as it was.
Update(u) ==
    LET r == update(cs, u)
    IN  /\ r.ok
        /\ cs' = r.state
        /\ pre' = cs
        /\ upd' = u
        /\ by' = IF u.type = "Step" THEN 1 ELSE 0
        /\ UNCHANGED <<counter, doc, pages, memo, res, constraint, builds, made, call>>

\* state.step(level, amount)
StepBy(level, amount) ==
    /\ cs' = step(cs, level, amount)
    /\ pre' = cs
    /\ upd' = Step(level)
    /\ by' = amount
    /\ UNCHANGED <<counter, doc, pages, memo, res, constraint, builds, made, call>>

\* The state is as it was drawn: nothing has been applied to it yet.
Drawn == upd = NoUpdate

\* One update or step is applied to each state drawn.
NextState ==
    \/ \E u \in Updates \cup {Step(l) : l \in 1..MaxLevel} : Drawn /\ Update(u)
    \/ \E level \in 1..MaxLevel, amount \in Usize : Drawn /\ StepBy(level, amount)

SpecState == InitState /\ [][NextState]_vars

(***************************************************************************)
(* The claims.                                                             *)
(***************************************************************************)
\* The locations of the events selected for the counter with key k.
Events(k, d) == {i \in 1..Len(d) : selector(k, d[i].elem)}

\* A step of the update algebra has just been applied at level k.
Stepped(k) == upd.type = "Step" /\ upd.level = k

\* C1 as stated: Step(k) increments the k-th entry by one (whatever its
\* value), keeps entries 1..k-1 and drops the entries beyond k when the state
\* has at least k entries, and otherwise keeps the entries and extends the
\* state with 1s up to length k.
C1_AsStated ==
    \A k \in 1..MaxLevel :
        (Stepped(k) /\ by = 1) =>
            /\ Len(cs) = k
            /\ \A j \in 1..k : j < k /\ j <= Len(pre) => cs[j] = pre[j]
            /\ Len(pre) >= k => cs[k] = pre[k] + 1
            /\ \A j \in 1..k : j > Len(pre) => cs[j] = 1

\* C1, amended: as stated, except that the increment saturates: a k-th entry
\* equal to usize::MAX stays at usize::MAX.  Step(2) on [6] gives [6,1],
\* Step(2) on [3] gives [3,1] and Step(1) on [6,1] gives [7].
C1_StepContract ==
    \A k \in 1..MaxLevel :
        (Stepped(k) /\ by = 1) =>
            /\ Len(cs) = k
            /\ \A j \in 1..k : j < k /\ j <= Len(pre) => cs[j] = pre[j]
            /\ Len(pre) >= k =>
                   cs[k] = (IF pre[k] = UsizeMax THEN UsizeMax ELSE pre[k] + 1)
            /\ \A j \in 1..k : j > Len(pre) => cs[j] = 1
            /\ (k = 2 /\ pre = <<6>>) => cs = <<6, 1>>
            /\ (k = 2 /\ pre = <<3>>) => cs = <<3, 1>>
            /\ (k = 1 /\ pre = <<6, 1>>) => cs = <<7>>

\* C1's case: the step() after step(level: 2) of the documentation's example.
C1_Witness == Stepped(1) /\ by = 1 /\ pre = <<6, 1>> /\ cs = <<7>>

\* C2 as stated: after a step at level k <= len + 1, every level above k
\* that the state had reads 1 and every level below k is unchanged.
C2_AsStated ==
    \A k \in 1..MaxLevel :
        (Stepped(k) /\ k <= Len(pre) + 1) =>
            /\ \A j \in 1..Len(pre) : j < k => cs[j] = pre[j]
            /\ \A j \in 1..Len(pre) : j > k => (j <= Len(cs) /\ cs[j] = 1)

\* C2, amended: after a step at level k <= len + 1, by any amount, every
\* level above k is gone (the state has exactly the levels 1..k) and every
\* level below k is unchanged.
C2_StepTruncation ==
    \A k \in 1..MaxLevel :
        (Stepped(k) /\ k <= Len(pre) + 1) =>
            /\ DOMAIN cs = 1..k
            /\ \A j \in 1..Len(pre) : j < k => cs[j] = pre[j]

\* C2's case: a step at level 1 of a state with three levels.
C2_Witness == Stepped(1) /\ Len(pre) = 3 /\ pre[2] > 1 /\ Len(cs) = 1

\* The last query was at(location), and it returned a state.
AtReturned(location) ==
    res.op = "at" /\ res.location = location /\ res.out.kind = "ok"

\* The last query was final, and it returned a state.
FinalReturned == res.op = "final" /\ res.out.kind = "ok"

\* The updates of the events among the first n elements of d, applied in
\* document order to the initial state [0] of a counter other than the page
\* counter.
RECURSIVE Replay(_, _, _)
Replay(k, d, n) ==
    IF n = 0 THEN Ok(<<0>>)
    ELSE LET r == Replay(k, d, n - 1)
             u == event_update(d[n].elem)
         IN  IF ~r.ok \/ ~selector(k, d[n].elem) \/ u = NoUpdate THEN r
             ELSE update(r.state, u)

\* The elements of the snapshot, without their pages.
DocElems == [i \in 1..Len(doc) |-> doc[i].elem]

\* C3: for a selector counter, at(location of a matching element) is the
\* state that the updates of the events up to and including that element,
\* applied in document order to [0], give; three headings of levels 1, 2, 3
\* read [1], [1,1] and [1,1,1].
C3_SelectorAt ==
    \A l \in Locations :
        (counter = Selector /\ AtReturned(l) /\ selector(counter, doc[l].elem)) =>
            /\ res.out.state = Replay(counter, doc, l).state
            /\ DocElems = <<Countable(Step(1)), Countable(Step(2)), Countable(Step(3))>>
                   => res.out.state = [i \in 1..l |-> 1]

\* C3's case: at the third of the headings of levels 1, 2, 3.
C3_Witness ==
    /\ counter = Selector
    /\ DocElems = <<Countable(Step(1)), Countable(Step(2)), Countable(Step(3))>>
    /\ AtReturned(3)
    /\ res.out.state = <<1, 1, 1>>

\* What at(location) returns when it reads the stop at index offset of the
\* cached Sequence.
ReadStop(offset, location) ==
    LET stop == memo.stops[offset + 1]
    IN  IF is_page(counter)
        THEN step(stop[1], 1, saturating_sub(page_of(doc, location), stop[2]))
        ELSE stop[1]

\* The number of events strictly before the location.
StrictlyBefore(location) ==
    Cardinality({i \in Events(counter, doc) : i < location})

\* The number of events before the location or at it.
AtOrBefore(location) ==
    Cardinality({i \in Events(counter, doc) : i <= location})

\* C4 as stated: at(location) reads the stop at the index that counts the
\* events strictly before the location, an event at the location excluded.
C4_AsStated ==
    \A l \in Locations :
        AtReturned(l) => res.out.state = ReadStop(StrictlyBefore(l), l)

\* C4, amended: at(location) reads the stop at the index that counts the
\* events before the location and the event located exactly at it.
C4_OffsetInclusive ==
    \A l \in Locations :
        AtReturned(l) => res.out.state = ReadStop(AtOrBefore(l), l)

\* C4's case: at, asked at the location of an event whose update changes the
\* state.
C4_Witness ==
    \E l \in Locations :
        /\ AtReturned(l)
        /\ l \in Events(counter, doc)
        /\ ReadStop(StrictlyBefore(l), l) # ReadStop(AtOrBefore(l), l)

\* The payloads of the explicit update events of the snapshot addressed to
\* the counter, in document order.
RECURSIVE PayloadsFrom(_)
PayloadsFrom(i) ==
    IF i > Len(doc) THEN <<>>
    ELSE (IF doc[i].elem.kind = "update" /\ doc[i].elem.key = counter
          THEN <<doc[i].elem.update>> ELSE <<>>) \o PayloadsFrom(i + 1)

\* The state before the event at location l is applied: the one of the stop
\* the events strictly before l lead to.
StateBefore(l) == memo.stops[StrictlyBefore(l) + 1][1]

\* C5: for a named counter, the state at a Set(s) event is s whatever the
\* state before it was, and the state at a Func(f) event is f of the integer
\* of the state before it; with the events update(3), update(n => n * 2) in
\* that order, at(L) is [6] for every L after the second one, and final is
\* [6].
C5_NamedUpdates ==
    /\ \A l \in Locations :
           (counter = Str /\ AtReturned(l) /\ l \in Events(counter, doc)) =>
               LET u == doc[l].elem.update
               IN  /\ u.type = "Set" => res.out.state = u.state
                   /\ u.func = "double" => res.out.state = <<2 * StateBefore(l)[1]>>
                   /\ u.func = "add3" => res.out.state = <<StateBefore(l)[1] + 3>>
    /\ (counter = Str /\ PayloadsFrom(1) = <<Set(<<3>>), Func("double")>>) =>
           /\ \A l \in Locations :
                  (AtReturned(l) /\ \A i \in Events(counter, doc) : i < l)
                      => res.out.state = <<6>>
           /\ FinalReturned => res.out.state = <<6>>

\* C5's case: at, asked after update(3) and update(n => n * 2).
C5_Witness ==
    /\ counter = Str
    /\ PayloadsFrom(1) = <<Set(<<3>>), Func("double")>>
    /\ AtReturned(3)
    /\ Events(counter, doc) = {1, 2}
    /\ res.out.state = <<6>>

\* C6: in a document without page-counter update events, at(L) of the page
\* counter is [page of L] for every L, and final is [number of pages].
C6_PageTurns ==
    (counter = Page /\ Events(counter, doc) = {}) =>
        /\ \A l \in Locations :
               res.op = "at" /\ res.location = l
                   => res.out = QOk(<<page_of(doc, l)>>)
        /\ res.op = "final" => res.out = QOk(<<pages>>)

\* C6's case: at on the third page of a document without page-counter
\* events, and final when the last page holds no element.
C6_Witness ==
    /\ counter = Page
    /\ Events(counter, doc) = {}
    /\ \/ \E l \in Locations : AtReturned(l) /\ page_of(doc, l) = 3
       \/ FinalReturned /\ pages = 3 /\ \A l \in Locations : page_of(doc, l) < 3

\* The only page-counter event of the snapshot is an update(1), on page 3.
OnlyUpdateOnPage3 ==
    /\ counter = Page
    /\ PayloadsFrom(1) = <<Set(<<1>>)>>
    /\ \A i \in Events(counter, doc) : doc[i].page = 3

\* The snapshot with its page-counter events absent: each replaced by an
\* element no counter selects, at the same place.
WithoutEvents ==
    [i \in 1..Len(doc) |->
        IF selector(Page, doc[i].elem) THEN At_(Other, doc[i].page) ELSE doc[i]]

\* What at(l) of the page counter returns over the snapshot without events.
AtWithoutEvents(l) ==
    at(Page, WithoutEvents, sequence_impl(Page, WithoutEvents, "panic"), l)

ValueAt(l) ==
    IF res.location = l THEN res.out.state ELSE at(counter, doc, memo, l).state

EndOfDocument ==
    {l \in Locations :
        /\ page_of(doc, l) = pages
        /\ \A i \in Events(counter, doc) : i <= l}

\* C9: final, whatever location it is given, returns the state of the last
\* stop of the Sequence, for the page counter stepped at level 1 by the
\* number of pages minus the last stop's page, and that is what at returns
\* at an end-of-document location.
C9_Final ==
    FinalReturned =>
        LET last == memo.stops[Len(memo.stops)]
        IN  /\ res.out.state =
                   (IF counter = Page
                    THEN step(last[1], 1, pages - last[2])
                    ELSE last[1])
            /\ \A l \in EndOfDocument :
                   at(counter, doc, memo, l) = res.out

\* C9's case: final of the page counter, asked at the first location, when
\* pages were turned after the last event.
C9_Witness ==
    /\ FinalReturned
    /\ counter = Page
    /\ res.location = 1
    /\ Events(counter, doc) # {}
    /\ pages > memo.stops[Len(memo.stops)][2]
    /\ EndOfDocument # {}
    /\ 1 \notin EndOfDocument

\* The top-level entry of a state, 1 for an empty state.
Top(s) == IF s = <<>> THEN 1 ELSE Head(s)

\* C10: both(L) is the two-element state of the top-level entries of at(L)
\* and of final(L), 1 standing for the entry of an empty state.
C10_Both ==
    \A l \in Locations :
        (res.op = "both" /\ res.location = l /\ res.out.kind = "ok") =>
            res.out.state = << Top(at(counter, doc, memo, l).state),
                               Top(final_(counter, pages, memo).state) >>

\* C10's case: both, where at returns an empty state and final one with
\* deeper levels.
C10_Witness ==
    \E l \in Locations :
        /\ res.op = "both" /\ res.location = l /\ res.out.kind = "ok"
        /\ at(counter, doc, memo, l).state = <<>>
        /\ Len(final_(counter, pages, memo).state) > 1

\* A Sequence is cached: the last build succeeded.
Built == memo.kind = "ok"

TimeTravel ==
    /\ counter = Str
    /\ PayloadsFrom(1) = <<Func("add3"), Step(1), Step(1)>>

\* The locations of the elements other than events (the heading among
\* them) placed after the update and before the steps.
AtIntro ==
    {l \in Locations \ Events(counter, doc) :
        Cardinality({i \in Events(counter, doc) : i < l}) = 1}

Returned == res.op # "none"

\* The update events of the snapshot addressed to the counter.
OwnEvents ==
    {i \in Locations : doc[i].elem.kind = "update" /\ doc[i].elem.key = counter}

\* The update events of the snapshot addressed to another key.
ForeignEvents ==
    {i \in Locations : doc[i].elem.kind = "update" /\ doc[i].elem.key # counter}

\* The elements of the snapshot that the selector of a selector key matches.
Matching ==
    {i \in Locations :
        \/ counter = Selector /\ doc[i].elem.kind = "elem"
        \/ counter = LabelKey /\ doc[i].elem.label = "x"}

\* The snapshot d without the elements at the locations S.
RECURSIVE Without(_, _)
Without(d, S) ==
    IF d = <<>> THEN <<>>
    ELSE LET front == Without(SubSeq(d, 1, Len(d) - 1), S)
         IN  IF Len(d) \in S THEN front ELSE Append(front, d[Len(d)])

\* The stops of the Sequence built over the snapshot d.
StopsOver(d) == sequence_impl(counter, d, "panic").stops

\* The Sequence has one stop after stop 0 for each update event addressed
\* to the counter and each element its selector matches, and for a counter
\* other than the page counter the stop of each event holds the state the
\* updates up to it give in document order.
StopPerEvent ==
    /\ Len(memo.stops) = 1 + Cardinality(OwnEvents \cup Matching)
    /\ \A l \in OwnEvents \cup Matching :
           counter # Page =>
               memo.stops[Cardinality({i \in OwnEvents \cup Matching : i <= l}) + 1][1]
                   = Replay(counter, doc, l).state

FreshBuilds == {sequence_impl(counter, doc, ovf) : ovf \in Overflow}

\* C14: the Sequence that sequence returns, served from the cache or
\* rebuilt, in a first or a later call over a snapshot and whatever the
\* snapshots and calls before, is the one a fresh build over the current
\* snapshot produces.
C14_SnapshotOnly == Returned => memo \in FreshBuilds

\* C14's case: a call served from the cache of an earlier pass, over a
\* snapshot that has grown since, and with events in it.
C14_Witness ==
    /\ Returned
    /\ builds = 0
    /\ Len(doc) = 3
    /\ Len(memo.stops) = 3
    /\ memo \in FreshBuilds

\* The update u is a Func whose call on the state s fails or returns what
\* does not cast to a CounterState.
FuncFails(u, s) == u.type = "Func" /\ ~cast(call_vt(u.func, s)).ok

\* The events among the first n elements of the snapshot d applied in
\* document order, the page steps of the page counter included, up to the
\* first Func that fails.
RECURSIVE Run(_, _, _)
Run(k, d, n) ==
    IF n = 0 THEN [ok |-> TRUE, state |-> initial_state(k), page |-> 1]
    ELSE LET r == Run(k, d, n - 1)
             turned == is_page(k) /\ d[n].page > r.page
             stepped == IF turned THEN step(r.state, 1, d[n].page - r.page)
                        ELSE r.state
             u == event_update(d[n].elem)
         IN  IF ~r.ok \/ ~selector(k, d[n].elem) THEN r
             ELSE IF FuncFails(u, stepped)
                  THEN [ok |-> FALSE, state |-> <<>>, page |-> r.page]
             ELSE [ok |-> TRUE,
                   state |-> IF u = NoUpdate THEN stepped
                             ELSE update(stepped, u).state,
                   page |-> IF is_page(k) THEN d[n].page ELSE 1]

\* C15: when a Func update of the snapshot fails or returns what does not
\* cast to a CounterState, sequence returns the error and no stop, and the
\* at, final or both query returns the error and no state.
C15_FuncError ==
    (Returned /\ ~Run(counter, doc, Len(doc)).ok) =>
        /\ memo = SeqErr
        /\ res.out = [kind |-> "err", state |-> <<>>]

\* C15's case: at, asked at the first of three events, the third of which
\* is a Func that fails.
C15_Witness ==
    /\ res.op = "at" /\ res.location = 1
    /\ Events(counter, doc) = {1, 2, 3}
    /\ Run(counter, doc, 2).ok
    /\ ~Run(counter, doc, 3).ok
    /\ res.out.kind = "err"

\* The last call was of at, final or both.
Queried == call.method \in {"at", "final", "both"}

NonEmptyState(s) == Len(s) >= 1 /\ \A j \in 1..Len(s) : s[j] \in Nat

\* C17: every CounterState recorded in a Sequence, and every state that at
\* or final returns, is a non-empty list of non-negative integers.
C17_NonEmpty ==
    /\ (Returned /\ Built) =>
           \A n \in 1..Len(memo.stops) : NonEmptyState(memo.stops[n][1])
    /\ (res.op \in {"at", "final"} /\ res.out.kind = "ok")
           => NonEmptyState(res.out.state)

\* C18: over one snapshot the Sequence build is executed at most once,
\* however many callers ask for the Sequence, and the callers are served
\* the same: at asked by two of them at the same location returns the same.
C18_OneBuild ==
    /\ builds <= 1
    /\ (res.op = "at" /\ call.method = "at" /\ call.args = <<Loc(res.location)>>)
           => call.out = res.out

\* C18's case: the show rule and a script have both asked at at the last
\* location of a snapshot with events, and the build has run once.
C18_Witness ==
    /\ builds = 1
    /\ res.op = "at" /\ res.location = Len(doc)
    /\ call.method = "at" /\ call.args = <<Loc(Len(doc))>>
    /\ Len(memo.stops) = 3
    /\ call.out = res.out

\* C19: a query over a snapshot whose Sequence is cached leaves the cached
\* Sequence as it is, every stop with the state and the page it was built
\* with, also when the query is one of the page counter that corrects the
\* drift.
C19_QueriesKeepCache ==
    [][(Built /\ hit /\ doc' = doc /\ pages' = pages) => memo' = memo]_vars

\* C19's case: final of the page counter has stepped the state of the last
\* stop by the pages turned since, and the cached stop holds the state and
\* the page it was built with.
C19_Witness ==
    /\ counter = Page
    /\ FinalReturned
    /\ Events(counter, doc) # {}
    /\ pages > memo.stops[Len(memo.stops)][2]
    /\ res.out.state # memo.stops[Len(memo.stops)][1]
    /\ memo \in FreshBuilds

\* C20: the build of the page counter's Sequence completes without
\* arithmetic underflow, and the stop of each event holds the state that
\* results when level 1 is stepped by the page delta before the event's own
\* update where the event's page is greater than the previous event's, and
\* by nothing where it is lower.
C20_SaturatingDelta ==
    (counter = Page /\ Returned /\ Run(counter, doc, Len(doc)).ok) =>
        /\ res.out.kind = "ok"
        /\ Built
        /\ \A l \in Events(counter, doc) :
               memo.stops[AtOrBefore(l) + 1] =
                   <<Run(counter, doc, l).state, page_of(doc, l)>>

\* C21: counter arithmetic saturates. A step at level k, by one or by any
\* amount, of a state that has a k-th entry leaves that entry at the sum when
\* the sum fits a usize and at the maximum value when it does not: the entry
\* is never smaller after the step than before it.
C21_Saturates ==
    \A k \in 1..MaxLevel :
        (Stepped(k) /\ Len(pre) >= k) =>
            /\ Len(cs) = k
            /\ cs[k] >= pre[k]
            /\ cs[k] = IF pre[k] + by >= UsizeMax THEN UsizeMax ELSE pre[k] + by

\* An entry one below the maximum has been stepped by more than one and sits
\* at the maximum.
C21_Witness ==
    /\ Stepped(2)
    /\ Len(pre) = 3
    /\ pre[2] = UsizeMax - 1
    /\ by > 1
    /\ cs = <<pre[1], UsizeMax>>

\* The events of the snapshot that are countable elements declaring no update.
Silent ==
    {l \in Events(counter, doc) :
        /\ doc[l].elem.kind = "elem"
        /\ doc[l].elem.count
        /\ doc[l].elem.update = NoUpdate}

\* C22: every successfully built Sequence has exactly 1 + N stops, N the
\* number of events selected for the counter; the stop of a countable element
\* that declares no update holds the state of the stop before it; so the
\* offset at and both compute for any location is at most N and names a stop
\* of the Sequence, and a query over a built Sequence returns a state.
C22_OnePlusN ==
    Built =>
        /\ Len(memo.stops) = 1 + Cardinality(Events(counter, doc))
        /\ \A l \in Silent :
               memo.stops[AtOrBefore(l) + 1][1] = memo.stops[AtOrBefore(l)][1]
        /\ \A l \in Locations :
               /\ query_before(counter, doc, l, TRUE) <= Cardinality(Events(counter, doc))
               /\ query_before(counter, doc, l, TRUE) + 1 \in DOMAIN memo.stops
        /\ (res.op \in {"at", "both"}) => res.out.kind = "ok"

\* A countable element without an update follows a stepping one, and at has
\* read the last stop at its location.
C22_Witness ==
    /\ Built
    /\ counter = Selector
    /\ Len(doc) = 3
    /\ Silent = {3}
    /\ Events(counter, doc) = {1, 3}
    /\ Len(memo.stops) = 3
    /\ memo.stops[3][1] = memo.stops[2][1]
    /\ memo.stops[2][1] # memo.stops[1][1]
    /\ res.op = "at" /\ res.location = 3
    /\ res.out = QOk(memo.stops[3][1])

\* The stop at(location) resolves to.
StopAt(l) == memo.stops[AtOrBefore(l) + 1]

\* The last stop of the Sequence.
LastStop == memo.stops[Len(memo.stops)]

\* at has returned a state for a location of the page counter that lies on
\* the page of the stop it resolves to, or on an earlier page.
AtNoDrift(l) ==
    /\ counter = Page /\ Built /\ AtReturned(l)
    /\ page_of(doc, l) <= StopAt(l)[2]

\* final has returned a state for the page counter and the last stop lies on
\* the last page of the document.
FinalNoDrift ==
    /\ counter = Page /\ Built /\ FinalReturned
    /\ LastStop[2] = pages

\* The first level of a state on its own, [1] for a state without levels.
FirstLevel(s) == IF Len(s) = 0 THEN <<1>> ELSE <<s[1]>>

\* C23 as stated: for the page counter, at a location on the page of the
\* stop it resolves to or on an earlier page, at returns exactly the state
\* stored in that stop, with all of its levels; and so does final when the
\* last stop's page is the total page count.
C23_AsStated ==
    /\ \A l \in Locations : AtNoDrift(l) => res.out.state = StopAt(l)[1]
    /\ FinalNoDrift => res.out.state = LastStop[1]

\* C23, amended: in these cases at and final return the first level of the
\* stored state and nothing deeper (the state still takes the step at level
\* 1, by 0), which is the stored state exactly when it has one level.
C23_FirstLevelOnly ==
    /\ \A l \in Locations :
           AtNoDrift(l) =>
               /\ res.out.state = FirstLevel(StopAt(l)[1])
               /\ (Len(StopAt(l)[1]) = 1 => res.out.state = StopAt(l)[1])
    /\ FinalNoDrift =>
           /\ res.out.state = FirstLevel(LastStop[1])
           /\ (Len(LastStop[1]) = 1 => res.out.state = LastStop[1])

\* at has read a stop of two levels from a location on an earlier page than
\* the stop's.
C23_Witness ==
    /\ AtNoDrift(2)
    /\ Len(doc) = 2
    /\ doc[1].elem = UpdateElem(Page, Step(2)) /\ doc[1].page = 2
    /\ doc[2].elem = Other /\ doc[2].page = 1
    /\ StopAt(2) = <<<<2, 1>>, 2>>
    /\ res.out.state = <<2>>

============================================================================
